---- MODULE Spec2Model ----
(***************************************************************************)
(* A model of the offline evaluation harness of the movie site:            *)
(* evaluator/evaluation_runner.py.  EvaluationRunner cleans the rating     *)
(* frame, partitions the users (one seeded 70/30 shuffle, or k-fold),      *)
(* splits the ratings per fold, fits the builder, calls the metric         *)
(* evaluators and averages.  The evaluate_*_recommender procedures sweep   *)
(* K and call the runner once per value.                                   *)
(*                                                                         *)
(* A DataFrame is a sequence of rows; a row is a record                    *)
(*   [index, user_id, movie_id, rating_timestamp]                          *)
(* whose index is the label DataFrame.from_records gave it (a RangeIndex,  *)
(* so labels are unique in a frame and survive every filter).              *)
(*                                                                         *)
(* The builders, recommenders and metric evaluators are other modules:     *)
(* a call to one of them returns (what it returns is chosen freely from a  *)
(* small set), and the runner's own exceptions are the ones modelled.      *)
(* min_rank is an integer >= 0, as head(min_rank) counts rows.             *)
(***************************************************************************)
EXTENDS Integers, Sequences, FiniteSets, TLC

\* ---------------------------------------------------------------- bounds
MaxRows == 3
MaxRank == 2
MaxMinRatings == 1
MaxFolds == 2
RngMod == 5

\* np.random.seed(42)
Seed == 42

\* ------------------------------------------------------------ data domain
\* Python's None where an object is expected; objects are tuples.
None == << >>
Obj(n) == <<n>>
NoError == "no error"
NoFamily == "no family"
UserIds == {1, 2, 3}
SplitUserIds == {1, 2}
Timestamps == {1, 2, 3}

Row(i, u, t) == [index |-> i, user_id |-> u, movie_id |-> 10 + i, rating_timestamp |-> t]

\* Frames as from_records builds them: row i carries label i.
Frames(U, T) ==
  UNION {{[i \in 1..n |-> Row(i, f[i][1], f[i][2])] : f \in [1..n -> U \X T]} : n \in 0..MaxRows}

\* Frames whose rows were rated in chronological order (timestamp = position).
ChronoFrames(U) ==
  UNION {{[i \in 1..n |-> Row(i, f[i], i)] : f \in [1..n -> U]} : n \in 0..MaxRows}

Min(a, b) == IF a <= b THEN a ELSE b
Range(s) == {s[i] : i \in DOMAIN s}
Index(df) == {df[i].index : i \in DOMAIN df}

\* The rows of df at the positions in idx, in df's order (boolean-mask selection).
Mask(df, idx) ==
  [k \in 1..Cardinality(idx) |-> df[CHOOSE i \in idx : Cardinality({j \in idx : j <= i}) = k]]

\* ratings[ratings['user_id'].isin(S)]
isin(df, S) == Mask(df, {i \in DOMAIN df : df[i].user_id \in S})

\* ------------------------------------------------------------- clean_data
\* groupby('user_id').count(): the number of rows of user u.
user_count(df, u) == Cardinality({i \in DOMAIN df : df[i].user_id = u})

SurvivesAtLeast(count, min_ratings) == count >= min_ratings
\* user_count['movie_id'] > min_ratings
Survives(count, min_ratings) == count > min_ratings

clean_data(df, min_ratings) ==
  LET user_ids == {u \in {df[i].user_id : i \in DOMAIN df} : Survives(user_count(df, u), min_ratings)}
  IN  isin(df, user_ids)

\* ------------------------------------------------------------- split_data
DescendingAsc(a, b) == a <= b
\* sort_values('rating_timestamp', ascending=False): a comes before b.
Descending(a, b) == a >= b

\* The orders sort_values may return: the default sort is not stable, so rows
\* of equal timestamp come in any order.
SortOrders(df) ==
  {p \in Permutations(DOMAIN df) :
     \A i \in DOMAIN df : i + 1 \in DOMAIN df =>
        Descending(df[p[i]].rating_timestamp, df[p[i + 1]].rating_timestamp)}

sort_values(df, p) == [i \in DOMAIN df |-> df[p[i]]]

\* groupby('user_id').cumcount(): rows of the same user before position i.
cumcount(df, i) == Cardinality({j \in 1..(i - 1) : df[j].user_id = df[i].user_id})

\* groupby('user_id').head(n): the first n rows of each user, in df's order.
head(df, n) == Mask(df, {i \in DOMAIN df : cumcount(df, i) < n})

additionalAll(test_temp, test) == test_temp
additionalNone(test_temp, test) == << >>
\* test_temp[~test_temp.index.isin(test.index)]
additional_training_data(test_temp, test) ==
  Mask(test_temp, {i \in DOMAIN test_temp : test_temp[i].index \notin Index(test)})

\* split_data with the order p that sort_values returned.
split_data(mr, df, testU, trainU, p) ==
  LET train     == isin(df, trainU)
      test_temp == sort_values(isin(df, testU), p)
      test      == head(test_temp, mr)
  IN  [test |-> test, train |-> train \o additional_training_data(test_temp, test)]

\* ------------------------------------------------- fetching the ratings
\* DataFrame.from_records gives the fetched rows a fresh RangeIndex.
from_records(rows) == [i \in DOMAIN rows |-> [rows[i] EXCEPT !.index = i]]

\* Rating.objects.values('user_id').annotate(Count).filter(movie_count__gt=m)
\*   .order_by('-movie_count')[:n]: the n users with the most ratings among
\* those with more than m; the database orders users of equal count freely.
TopUserSets(table, m, n) ==
  LET eligible == {u \in {table[i].user_id : i \in DOMAIN table} : user_count(table, u) > m}
  IN  {S \in SUBSET eligible :
         /\ Cardinality(S) = Min(n, Cardinality(eligible))
         /\ \A u \in S : \A v \in eligible \ S : user_count(table, u) >= user_count(table, v)}

\* ------------------------------------------------------ user partitions
\* ratings.user_id.unique(): the users in order of first appearance.
unique(df) ==
  LET firsts == Mask(df, {i \in DOMAIN df : \A j \in 1..(i - 1) : df[j].user_id # df[i].user_id})
  IN  [k \in DOMAIN firsts |-> firsts[k].user_id]

\* int(len(users) * 70 / 100)
train_data_len(n) == (n * 70) \div 100

\* numpy's global generator, as a small linear congruential generator.
NextRng(s) == (2 * s + 1) % RngMod

KeepRng(s, n) == s
\* np.random.seed(n): the state no longer depends on what was drawn before.
seed(s, n) == n % RngMod

Swap(x, i, j) == [x EXCEPT ![i] = x[j], ![j] = x[i]]

\* np.random.shuffle: for i = n-1 down to 1, swap x[i] with x[j], j drawn in 0..i.
RECURSIVE shuffle_from(_, _, _)
shuffle_from(x, s, i) ==
  IF i < 1 THEN [arr |-> x, rng |-> s]
  ELSE LET s2 == NextRng(s)
           j  == s2 % (i + 1)
       IN  shuffle_from(Swap(x, i + 1, j + 1), s2, i - 1)

shuffle(x, s) == shuffle_from(x, s, Len(x) - 1)

\* KFold(n_splits=F).split(users) on n users: fold k tests a contiguous block;
\* the first n % F blocks hold one user more.  Positions are 1-based here.
fold_start(n, F, k) == (k - 1) * (n \div F) + Min(k - 1, n % F)
KFoldSplit(n, F) ==
  [k \in 1..F |->
     LET test == (fold_start(n, F, k) + 1)..fold_start(n, F, k + 1)
     IN  [test |-> test, train |-> (1..n) \ test]]

Take(arr, idx) == {arr[i] : i \in idx}

\* ----------------------------------------------------------- the runner
AlwaysBuild(b) == TRUE
\* if self.builder:
ShouldBuild(b) == b # None

Overwrite(acc, v) == v
\* maps += map
Accumulate(acc, v) == acc + v

\* maps / self.folds (a Decimal quotient, kept as numerator and denominator)
Quotient(sum, n) == [num |-> sum, den |-> n]

\* What the metric evaluators may return (Decimal values, scaled to integers).
RankingOutcomes == {[map |-> 1, ar |-> 2], [map |-> 2, ar |-> 0]}
MaeOutcomes == {0, 3}
NumberTestUsers == {-1, 1}

VARIABLES
  pc,                    \* position of the running procedure
  db,                    \* the Rating table
  folds,                 \* EvaluationRunner.folds
  builder,               \* EvaluationRunner.builder (None or a builder)
  params,                \* EvaluationRunner.params (None or a dict)
  all_ratings,           \* the frame handed to the runner / to clean_data
  ratings,               \* the frame after clean_data
  min_number_of_ratings, \* argument of calculate / clean_data
  min_rank,              \* argument of calculate / split_data
  users,                 \* ratings.user_id.unique(), shuffled in single-pass mode
  rng,                   \* state of numpy's global random generator
  test_users,            \* test cohort (isin only reads membership)
  train_users,           \* train cohort
  test_data,             \* split_data's first result
  train_data,            \* split_data's second result
  kf,                    \* the folds kf.split(users) has yet to yield
  validation_no,
  maps, ars, maes,       \* accumulators of calculate_using_ratings
  results,               \* the local `results`: << >> while unbound
  save_path_set,         \* recommender.set_save_path was called
  splits,                \* every (test, train) split_data returned
  builds,                \* every builder.build call
  ranking_calls,         \* every PrecisionAtK(...).calculate_mean_average_precision call
  mae_calls,             \* every MeanAverageError(...).calculate call
  err,                   \* the exception that ended the call, or NoError
  partitions,            \* the user partition of every single-pass run so far
  family,                \* the sweep procedure running (evaluate_<family>_recommender)
  coverage,              \* its coverage argument
  ks,                    \* the values of k the loop has yet to take
  k,                     \* the loop variable
  sweep_builder,         \* the sweep's local `builder`
  er_builder,            \* the builder handed to this iteration's EvaluationRunner
  recommender,           \* this iteration's recommender object
  objects,               \* how many builder / recommender objects were constructed
  runs,                  \* every er.calculate call of the sweep
  logfile                \* the rows written after the header

frameVars  == <<all_ratings, ratings, min_number_of_ratings, min_rank,
                test_users, train_users, test_data, train_data>>
runnerVars == <<db, folds, builder, params, users, rng, kf, validation_no,
                maps, ars, maes, results, save_path_set, splits, builds,
                ranking_calls, mae_calls, err, partitions>>
sweepVars  == <<family, coverage, ks, k, sweep_builder, er_builder, recommender,
                objects, runs, logfile>>
vars == <<pc, frameVars, runnerVars, sweepVars>>

SweepIdle ==
  /\ family = NoFamily /\ coverage = FALSE /\ ks = << >> /\ k = 0
  /\ sweep_builder = None /\ er_builder = None /\ recommender = None
  /\ objects = 0 /\ runs = << >> /\ logfile = << >>

RunnerIdle ==
  /\ users = << >> /\ kf = << >> /\ validation_no = 0
  /\ maps = 0 /\ ars = 0 /\ maes = 0
  /\ results = << >> /\ save_path_set = FALSE
  /\ splits = << >> /\ builds = << >> /\ ranking_calls = << >> /\ mae_calls = << >>
  /\ err = NoError /\ partitions = << >>

\* ------------------------------------------- clean_data / split_data alone
SplitInit ==
  /\ pc = "input"
  /\ all_ratings \in Frames(SplitUserIds, Timestamps)
  /\ ratings = all_ratings
  /\ min_number_of_ratings = 5
  /\ min_rank \in 0..MaxRank
  /\ test_users \in SUBSET SplitUserIds
  /\ train_users \in SUBSET SplitUserIds
  /\ test_data = << >>
  /\ train_data = << >>
  /\ db = << >> /\ folds = 0 /\ builder = None /\ params = None /\ rng = 0
  /\ RunnerIdle
  /\ SweepIdle

CallCleanData ==
  /\ pc = "input"
  /\ \E m \in 0..MaxMinRatings :
       /\ min_number_of_ratings' = m
       /\ ratings' = clean_data(all_ratings, m)
  /\ pc' = "cleaned"
  /\ UNCHANGED <<all_ratings, min_rank, test_users, train_users, test_data, train_data>>
  /\ UNCHANGED runnerVars
  /\ UNCHANGED sweepVars

CallSplitData ==
  /\ pc \in {"input", "cleaned"}
  /\ \E p \in SortOrders(isin(ratings, test_users)) :
       LET s == split_data(min_rank, ratings, test_users, train_users, p)
       IN  /\ test_data' = s.test
           /\ train_data' = s.train
  /\ pc' = "split"
  /\ UNCHANGED <<all_ratings, ratings, min_number_of_ratings, min_rank, test_users, train_users>>
  /\ UNCHANGED runnerVars
  /\ UNCHANGED sweepVars

SplitNext == CallCleanData \/ CallSplitData

SplitSpec == SplitInit /\ [][SplitNext]_vars

\* ------------------------------------------------- EvaluationRunner runs
RunnerInit ==
  /\ pc = "init"
  /\ db \in ChronoFrames(UserIds)
  /\ folds \in -1..MaxFolds
  /\ builder \in {None, Obj("builder")}
  /\ params \in {None, Obj("params")}
  /\ rng = 0
  /\ all_ratings = << >> /\ ratings = << >>
  /\ min_number_of_ratings = 5 /\ min_rank = 10
  /\ test_users = {} /\ train_users = {}
  /\ test_data = << >> /\ train_data = << >>
  /\ RunnerIdle
  /\ SweepIdle

Raise(e) ==
  /\ pc' = "error"
  /\ err' = e

\* calculate: fetch the ratings and dispatch on folds (lines 64-90).
Calculate ==
  /\ pc = "init"
  /\ \E m \in 0..MaxMinRatings, r \in 0..MaxRank, n \in NumberTestUsers :
       /\ min_number_of_ratings' = m
       /\ min_rank' = r
       /\ IF n = -1
            THEN all_ratings' = from_records(db)
            ELSE \E S \in TopUserSets(db, m, n) : all_ratings' = from_records(isin(db, S))
  /\ pc' = IF folds = 0 THEN "nocv" ELSE "cv"
  /\ UNCHANGED <<ratings, test_users, train_users, test_data, train_data>>
  /\ UNCHANGED runnerVars
  /\ UNCHANGED sweepVars

\* calculate_using_ratings_no_crossvalidation, lines 93-100: clean, seed,
\* shuffle, cut at 70%.  A frame of no records has no columns, so selecting
\* ['user_id', 'movie_id'] in clean_data raises KeyError.
NoCvPartition ==
  /\ pc = "nocv"
  /\ IF all_ratings = << >>
       THEN /\ Raise("KeyError")
            /\ UNCHANGED <<ratings, users, rng, train_users, test_users, partitions>>
       ELSE LET cleaned == clean_data(all_ratings, min_number_of_ratings)
                u       == unique(cleaned)
                cut     == train_data_len(Len(u))
                sh      == shuffle(u, seed(rng, Seed))
            IN  /\ ratings' = cleaned
                /\ users' = sh.arr
                /\ rng' = sh.rng
                /\ train_users' = Take(sh.arr, 1..cut)
                /\ test_users' = Take(sh.arr, (cut + 1)..Len(u))
                /\ partitions' = Append(partitions,
                     [frame |-> all_ratings, min_ratings |-> min_number_of_ratings,
                      rng_before |-> rng,
                      train |-> Take(sh.arr, 1..cut), test |-> Take(sh.arr, (cut + 1)..Len(u))])
                /\ pc' = "nocv_split"
                /\ err' = err
  /\ UNCHANGED <<all_ratings, min_number_of_ratings, min_rank, test_data, train_data>>
  /\ UNCHANGED <<db, folds, builder, params, kf, validation_no, maps, ars, maes,
                 results, save_path_set, splits, builds, ranking_calls, mae_calls>>
  /\ UNCHANGED sweepVars

\* lines 102-108
NoCvSplit ==
  /\ pc = "nocv_split"
  /\ \E p \in SortOrders(isin(ratings, test_users)) :
       LET s == split_data(min_rank, ratings, test_users, train_users, p)
       IN  /\ test_data' = s.test
           /\ train_data' = s.train
           /\ splits' = Append(splits, s)
  /\ pc' = "nocv_build"
  /\ UNCHANGED <<all_ratings, ratings, min_number_of_ratings, min_rank, test_users, train_users>>
  /\ UNCHANGED <<db, folds, builder, params, users, rng, kf, validation_no, maps, ars, maes,
                 results, save_path_set, builds, ranking_calls, mae_calls, err, partitions>>
  /\ UNCHANGED sweepVars

\* lines 110-117
NoCvBuild ==
  /\ pc = "nocv_build"
  /\ IF ShouldBuild(builder)
       THEN IF params # None
              THEN /\ builds' = Append(builds, [train |-> train_data, params |-> params])
                   /\ save_path_set' = TRUE
              ELSE /\ builds' = Append(builds, [train |-> train_data, params |-> None])
                   /\ UNCHANGED save_path_set
       ELSE UNCHANGED <<builds, save_path_set>>
  /\ pc' = "nocv_evaluate"
  /\ UNCHANGED frameVars
  /\ UNCHANGED <<db, folds, builder, params, users, rng, kf, validation_no, maps, ars, maes,
                 results, splits, ranking_calls, mae_calls, err, partitions>>
  /\ UNCHANGED sweepVars

\* lines 119-122: one ranking evaluation; mae is 0 in this mode.
NoCvEvaluate ==
  /\ pc = "nocv_evaluate"
  /\ \E o \in RankingOutcomes :
       /\ ranking_calls' = Append(ranking_calls,
                                  [train |-> train_data, test |-> test_data, map |-> o.map, ar |-> o.ar])
       /\ results' = <<[map |-> o.map, ar |-> o.ar, mae |-> 0, users |-> Len(users)]>>
  /\ pc' = "done"
  /\ UNCHANGED frameVars
  /\ UNCHANGED <<db, folds, builder, params, users, rng, kf, validation_no, maps, ars, maes,
                 save_path_set, splits, builds, mae_calls, err, partitions>>
  /\ UNCHANGED sweepVars

\* calculate_using_ratings, lines 126-136: clean, unique, KFold(n_splits=folds),
\* the accumulators, and the start of kf.split(users).  KFold refuses
\* n_splits < 2 when it is built and n_splits > len(users) when split starts.
CvPrepare ==
  /\ pc = "cv"
  /\ IF all_ratings = << >>
       THEN /\ Raise("KeyError")
            /\ UNCHANGED <<ratings, users, kf>>
       ELSE LET cleaned == clean_data(all_ratings, min_number_of_ratings)
                u       == unique(cleaned)
            IN  /\ ratings' = cleaned
                /\ users' = u
                /\ IF folds < 2 \/ folds > Len(u)
                     THEN /\ Raise("ValueError")
                          /\ UNCHANGED kf
                     ELSE /\ kf' = KFoldSplit(Len(u), folds)
                          /\ pc' = "cv_loop"
                          /\ err' = err
  /\ validation_no' = 0
  /\ maps' = 0 /\ ars' = 0 /\ maes' = 0
  /\ UNCHANGED <<all_ratings, min_number_of_ratings, min_rank, test_users, train_users,
                 test_data, train_data>>
  /\ UNCHANGED <<db, folds, builder, params, rng, results, save_path_set, splits, builds,
                 ranking_calls, mae_calls, partitions>>
  /\ UNCHANGED sweepVars

\* lines 136-146: the next fold's cohorts and split.
CvSplit ==
  /\ pc = "cv_loop"
  /\ kf # << >>
  /\ validation_no' = validation_no + 1
  /\ test_users' = Take(users, Head(kf).test)
  /\ train_users' = Take(users, Head(kf).train)
  /\ \E p \in SortOrders(isin(ratings, Take(users, Head(kf).test))) :
       LET s == split_data(min_rank, ratings, Take(users, Head(kf).test),
                           Take(users, Head(kf).train), p)
       IN  /\ test_data' = s.test
           /\ train_data' = s.train
           /\ splits' = Append(splits, s)
  /\ kf' = Tail(kf)
  /\ pc' = "cv_build"
  /\ UNCHANGED <<all_ratings, ratings, min_number_of_ratings, min_rank>>
  /\ UNCHANGED <<db, folds, builder, params, users, rng, maps, ars, maes,
                 results, save_path_set, builds, ranking_calls, mae_calls, err, partitions>>
  /\ UNCHANGED sweepVars

\* lines 147-150
CvBuild ==
  /\ pc = "cv_build"
  /\ IF ShouldBuild(builder)
       THEN builds' = Append(builds, [train |-> train_data, params |-> None])
       ELSE UNCHANGED builds
  /\ pc' = "cv_evaluate"
  /\ UNCHANGED frameVars
  /\ UNCHANGED <<db, folds, builder, params, users, rng, kf, validation_no, maps, ars, maes,
                 results, save_path_set, splits, ranking_calls, mae_calls, err, partitions>>
  /\ UNCHANGED sweepVars

\* lines 152-159: both evaluators, the accumulators, and `results` recomputed.
CvEvaluate ==
  /\ pc = "cv_evaluate"
  /\ \E o \in RankingOutcomes, e \in MaeOutcomes :
       /\ ranking_calls' = Append(ranking_calls,
                                  [train |-> train_data, test |-> test_data, map |-> o.map, ar |-> o.ar])
       /\ mae_calls' = Append(mae_calls, [train |-> train_data, test |-> test_data, mae |-> e])
       /\ maps' = Accumulate(maps, o.map)
       /\ ars' = Accumulate(ars, o.ar)
       /\ maes' = Accumulate(maes, e)
       /\ results' = <<[map |-> Quotient(Accumulate(maps, o.map), folds),
                        ar  |-> Quotient(Accumulate(ars, o.ar), folds),
                        mae |-> Quotient(Accumulate(maes, e), folds)]>>
  /\ pc' = "cv_loop"
  /\ UNCHANGED frameVars
  /\ UNCHANGED <<db, folds, builder, params, users, rng, kf, validation_no,
                 save_path_set, splits, builds, err, partitions>>
  /\ UNCHANGED sweepVars

\* lines 161-162: the loop is over; `results` is read (unbound if no fold ran).
CvReturn ==
  /\ pc = "cv_loop"
  /\ kf = << >>
  /\ IF results = << >>
       THEN Raise("UnboundLocalError")
       ELSE /\ pc' = "done"
            /\ err' = err
  /\ UNCHANGED frameVars
  /\ UNCHANGED <<db, folds, builder, params, users, rng, kf, validation_no, maps, ars, maes,
                 results, save_path_set, splits, builds, ranking_calls, mae_calls, partitions>>
  /\ UNCHANGED sweepVars

RunnerStep ==
  \/ Calculate
  \/ NoCvPartition \/ NoCvSplit \/ NoCvBuild \/ NoCvEvaluate
  \/ CvPrepare \/ CvSplit \/ CvBuild \/ CvEvaluate \/ CvReturn

Spec == RunnerInit /\ [][RunnerStep]_vars

\* --------------------------------------- repeated single-pass runs
\* One process runs calculate again and again on a runner with folds = 0;
\* between two runs anything may draw from numpy's global generator.
RepeatInit ==
  /\ RunnerInit
  /\ folds = 0
  /\ builder = None
  /\ params = None

RandomDraw ==
  /\ pc = "init"
  /\ rng' = NextRng(rng)
  /\ UNCHANGED <<pc, frameVars>>
  /\ UNCHANGED <<db, folds, builder, params, users, kf, validation_no, maps, ars, maes,
                 results, save_path_set, splits, builds, ranking_calls, mae_calls, err,
                 partitions>>
  /\ UNCHANGED sweepVars

\* The call is over; the next call starts with fresh locals.
Again ==
  /\ pc \in {"done", "error"}
  /\ Len(partitions) < 2
  /\ pc' = "init"
  /\ all_ratings' = << >> /\ ratings' = << >>
  /\ min_number_of_ratings' = 5 /\ min_rank' = 10
  /\ test_users' = {} /\ train_users' = {}
  /\ test_data' = << >> /\ train_data' = << >>
  /\ users' = << >> /\ results' = << >>
  /\ splits' = << >> /\ builds' = << >> /\ ranking_calls' = << >> /\ mae_calls' = << >>
  /\ err' = NoError
  /\ UNCHANGED <<db, folds, builder, params, rng, kf, validation_no, maps, ars, maes,
                 save_path_set, partitions>>
  /\ UNCHANGED sweepVars

RepeatStep ==
  \/ Calculate
  \/ NoCvPartition \/ NoCvSplit \/ NoCvBuild \/ NoCvEvaluate
  \/ RandomDraw \/ Again

RepeatSpec == RepeatInit /\ [][RepeatStep]_vars

\* ------------------------------------------------------ the K sweeps
Families == {"pop", "cf", "cb", "fwls", "funksvd", "bpr"}

\* np.arange(a, b, step)
arange(a, b, step) == [i \in 1..((b - a + step - 1) \div step) |-> a + (i - 1) * step]

\* for k in np.arange(...)
k_values(fam) ==
  CASE fam = "cb"   -> arange(5, 20, 3)
    [] fam = "fwls" -> arange(2, 20, 2)
    [] OTHER        -> arange(0, 20, 2)

\* The families whose sweep makes a builder before the loop.
builder_before_loop(fam) == fam \in {"cf", "fwls", "funksvd", "bpr"}

\* The families whose sweep passes params to the runner.
has_params(fam) == fam \in {"fwls", "funksvd", "bpr"}

builder_kept(fam, b) == b
\* `builder = None` after er.calculate in the fwls, funksvd and bpr sweeps.
builder_after_run(fam, b) == IF fam \in {"fwls", "funksvd", "bpr"} THEN None ELSE b

\* The sweep up to its loop: the log file's header is written and the local
\* `builder` is bound.
SweepStart ==
  /\ pc = "sweep_init"
  /\ \E fam \in Families, cov \in BOOLEAN :
       /\ family' = fam
       /\ coverage' = cov
       /\ ks' = k_values(fam)
       /\ IF builder_before_loop(fam)
            THEN /\ sweep_builder' = Obj(objects + 1)
                 /\ objects' = objects + 1
            ELSE /\ sweep_builder' = None
                 /\ UNCHANGED objects
  /\ pc' = "sweep_loop"
  /\ UNCHANGED <<k, er_builder, recommender, runs, logfile>>
  /\ UNCHANGED <<frameVars, runnerVars>>

\* The head of the loop body: a new recommender, and the EvaluationRunner
\* with folds = 0 (cf makes a new ItemSimilarityMatrixBuilder for it, cb
\* passes None, the others pass the local `builder`).
SweepConstruct ==
  /\ pc = "sweep_loop"
  /\ ks # << >>
  /\ k' = Head(ks)
  /\ ks' = Tail(ks)
  /\ recommender' = Obj(objects + 1)
  /\ IF family = "cf"
       THEN /\ er_builder' = Obj(objects + 2)
            /\ objects' = objects + 2
       ELSE /\ er_builder' = (IF family = "cb" THEN None ELSE sweep_builder)
            /\ objects' = objects + 1
  /\ pc' = "sweep_run"
  /\ UNCHANGED <<family, coverage, sweep_builder, runs, logfile>>
  /\ UNCHANGED <<frameVars, runnerVars>>

\* er.calculate(...) in single-pass mode: the runner fits er_builder if it has
\* one (lines 110-115) and returns the ranking evaluator's values with mae 0.
\* Then the sweep rebinds its local `builder`.
SweepRun ==
  /\ pc = "sweep_run"
  /\ \E o \in RankingOutcomes :
       runs' = Append(runs, [k |-> k, builder |-> er_builder, recommender |-> recommender,
                             fitted |-> ShouldBuild(er_builder),
                             fitted_with_params |-> ShouldBuild(er_builder) /\ has_params(family),
                             result |-> [map |-> o.map, ar |-> o.ar, mae |-> 0]])
  /\ sweep_builder' = builder_after_run(family, sweep_builder)
  /\ pc' = "sweep_log"
  /\ UNCHANGED <<family, coverage, ks, k, er_builder, recommender, objects, logfile>>
  /\ UNCHANGED <<frameVars, runnerVars>>

\* The rest of the loop body: the optional coverage evaluation, then one row
\* appended to the log file and flushed.
SweepLog ==
  /\ pc = "sweep_log"
  /\ logfile' = Append(logfile, [k |-> k, result |-> runs[Len(runs)].result,
                                 coverage_evaluated |-> coverage])
  /\ pc' = "sweep_loop"
  /\ UNCHANGED <<family, coverage, ks, k, sweep_builder, er_builder, recommender, objects, runs>>
  /\ UNCHANGED <<frameVars, runnerVars>>

\* The loop is over and the log file is closed.
SweepEnd ==
  /\ pc = "sweep_loop"
  /\ ks = << >>
  /\ pc' = "sweep_done"
  /\ UNCHANGED sweepVars
  /\ UNCHANGED <<frameVars, runnerVars>>

SweepInit ==
  /\ pc = "sweep_init"
  /\ all_ratings = << >> /\ ratings = << >>
  /\ min_number_of_ratings = 5 /\ min_rank = 10
  /\ test_users = {} /\ train_users = {}
  /\ test_data = << >> /\ train_data = << >>
  /\ db = << >> /\ folds = 0 /\ builder = None /\ params = None /\ rng = 0
  /\ RunnerIdle
  /\ SweepIdle

SweepStep == SweepStart \/ SweepConstruct \/ SweepRun \/ SweepLog \/ SweepEnd

SweepSpec == SweepInit /\ [][SweepStep]_vars

\* ====================================================================
\* Properties of clean_data and split_data (specification SplitSpec)
\* ====================================================================
RowsOfUser(df, u) == {r \in Range(df) : r.user_id = u}

\* C1 as stated: whatever the cohorts, no observation (index label) is in both
\* the train set and the test set that split_data returns.
C1_DisjointForAnyCohorts ==
  pc = "split" => Index(train_data) \cap Index(test_data) = {}

\* C1 amended: when the train cohort and the test cohort share no user, no
\* observation is in both the train set and the test set.
C1_DisjointForDisjointCohorts ==
  (pc = "split" /\ train_users \cap test_users = {})
     => Index(train_data) \cap Index(test_data) = {}

C1_Witness ==
  /\ pc = "split"
  /\ train_users \cap test_users = {}
  /\ test_data # << >>
  /\ \E r \in Range(train_data) : r.user_id \in train_users
  /\ \E r \in Range(train_data) : r.user_id \in test_users

\* C2: the rows of the train set and the test set together are exactly the
\* rows of the input whose user is in one of the two cohorts.
C2_UnionIsCohortRows ==
  pc = "split" =>
     Range(train_data) \cup Range(test_data)
        = {r \in Range(ratings) : r.user_id \in train_users \cup test_users}

C2_Witness ==
  /\ pc = "split"
  /\ \E r \in Range(ratings) : r.user_id \notin train_users \cup test_users
  /\ test_data # << >>
  /\ \E r \in Range(train_data) : r.user_id \in test_users /\ r.user_id \notin train_users

\* C3: a test user with n rows has exactly min(n, min_rank) rows in the test
\* set; the user's other rows are in the train set and none of them is more
\* recent than any of the user's test rows.
C3_MostRecentMinRank ==
  pc = "split" =>
     \A u \in test_users :
        LET mine     == RowsOfUser(ratings, u)
            tested   == RowsOfUser(test_data, u)
            overflow == mine \ tested
        IN  /\ tested \subseteq mine
            /\ Cardinality(tested) = Min(Cardinality(mine), min_rank)
            /\ overflow \subseteq Range(train_data)
            /\ \A o \in overflow : \A t \in tested :
                  o.rating_timestamp <= t.rating_timestamp

\* The example of the specification: rows t=1,2,3 of one user, min_rank = 2.
C3_Witness ==
  /\ pc = "split"
  /\ min_rank = 2
  /\ \E u \in test_users :
       /\ {r.rating_timestamp : r \in RowsOfUser(ratings, u)} = {1, 2, 3}
       /\ Len(ratings) = 3
       /\ {r.rating_timestamp : r \in Range(test_data)} = {3, 2}
       /\ {r.rating_timestamp : r \in RowsOfUser(train_data, u)} = {1}

RECURSIVE SumSeq(_)
SumSeq(s) == IF s = << >> THEN 0 ELSE Head(s) + SumSeq(Tail(s))

Returned == pc = "done"
NoSurvivor == pc # "init" /\ clean_data(all_ratings, min_number_of_ratings) = << >>

\* C4: a cross-validation run that returns has run exactly `folds` folds, and
\* its map, ar and mae are the sums of the per-fold values the evaluators
\* returned, each value counted once, over `folds`.
C4_FoldAverage ==
  (Returned /\ folds > 0) =>
     /\ validation_no = folds
     /\ Len(splits) = folds /\ Len(ranking_calls) = folds /\ Len(mae_calls) = folds
     /\ results[1].map = [num |-> SumSeq([i \in DOMAIN ranking_calls |-> ranking_calls[i].map]),
                          den |-> folds]
     /\ results[1].ar  = [num |-> SumSeq([i \in DOMAIN ranking_calls |-> ranking_calls[i].ar]),
                          den |-> folds]
     /\ results[1].mae = [num |-> SumSeq([i \in DOMAIN mae_calls |-> mae_calls[i].mae]),
                          den |-> folds]

C4_Witness ==
  /\ Returned
  /\ folds >= 2
  /\ ranking_calls[1].map # ranking_calls[2].map
  /\ mae_calls[1].mae # mae_calls[2].mae
  /\ results[1].mae.num > 0

\* C5 as stated: in single-pass and in cross-validation mode, a call in
\* which no user survives cleaning does not end in an exception.
C5_EmptyCohortReturns ==
  (folds >= 0 /\ NoSurvivor) => pc # "error"

\* C7 as stated: a call with folds < 0 or min_rank <= 0 produces no split,
\* fits no builder, invokes no evaluator and returns no result.
C7_RejectedEagerly ==
  (pc # "init" /\ (folds < 0 \/ min_rank <= 0)) =>
     /\ splits = << >> /\ builds = << >>
     /\ ranking_calls = << >> /\ mae_calls = << >>
     /\ ~Returned

\* C8: a runner without a builder never calls build (nor set_save_path); no
\* exception ends its call once the first fold is split; when its call
\* returns, the ranking evaluator has been invoked once on each fold's split,
\* in order, and the record holds map, ar and mae.
C8_NoBuilderNoFit ==
  builder = None =>
     /\ builds = << >>
     /\ ~save_path_set
     /\ pc = "error" => splits = << >>
     /\ Len(ranking_calls) <= Len(splits)
     /\ \A i \in DOMAIN ranking_calls :
           /\ ranking_calls[i].train = splits[i].train
           /\ ranking_calls[i].test = splits[i].test
     /\ Returned =>
           /\ Len(splits) = (IF folds = 0 THEN 1 ELSE folds)
           /\ Len(ranking_calls) = Len(splits)
           /\ {"map", "ar", "mae"} \subseteq DOMAIN results[1]

C8_Witness ==
  /\ builder = None
  /\ params # None
  /\ Returned
  /\ folds >= 2
  /\ \A i \in DOMAIN splits : splits[i].train # << >> /\ splits[i].test # << >>

\* ====================================================================
\* Repeated single-pass runs (specification RepeatSpec)
\* ====================================================================
\* C9: two single-pass runs on the same frame with the same
\* min_number_of_ratings end with the same train cohort and the same test
\* cohort, whatever was drawn from the generator before each of them (and
\* whatever min_rank each was given).
C9_SamePartition ==
  \A i, j \in DOMAIN partitions :
     (partitions[i].frame = partitions[j].frame
        /\ partitions[i].min_ratings = partitions[j].min_ratings)
     => /\ partitions[i].train = partitions[j].train
        /\ partitions[i].test = partitions[j].test

C9_Witness ==
  /\ Len(partitions) = 2
  /\ partitions[1].frame = partitions[2].frame
  /\ partitions[1].min_ratings = partitions[2].min_ratings
  /\ partitions[1].rng_before # partitions[2].rng_before
  /\ partitions[1].train # {} /\ partitions[1].test # {}
  /\ Cardinality(partitions[1].train \cup partitions[1].test) >= 3

\* ====================================================================
\* The sweeps (specification SweepSpec)
\* ====================================================================
WithBuilder == {"cf", "fwls", "funksvd", "bpr"}
FitOnce == {"fwls", "funksvd", "bpr"}

FreshRecommenders ==
  \A i, j \in DOMAIN runs : i # j => runs[i].recommender # runs[j].recommender

\* C10 as stated: in the cf, fwls, funksvd and bpr sweeps every iteration hands
\* the runner a builder (a different one each time) and the model is fit.
C10_FitForEveryValue ==
  family \in WithBuilder =>
     /\ \A i \in DOMAIN runs : runs[i].builder # None /\ runs[i].fitted
     /\ \A i, j \in DOMAIN runs : i # j => runs[i].builder # runs[j].builder
     /\ FreshRecommenders

\* C10 amended: every iteration makes a new recommender.  In the cf sweep every
\* iteration also makes a new builder and the model is fit for every value.
\* In the fwls, funksvd and bpr sweeps the one builder made before the loop is
\* handed to the runner for the first value only; from the second value on
\* the runner gets None and nothing is fit.
C10_FitForFirstValueOnly ==
  /\ FreshRecommenders
  /\ family = "cf" =>
        /\ \A i \in DOMAIN runs : runs[i].builder # None /\ runs[i].fitted
        /\ \A i, j \in DOMAIN runs : i # j => runs[i].builder # runs[j].builder
  /\ family \in FitOnce =>
        \A i \in DOMAIN runs :
           /\ i = 1 => runs[i].builder # None /\ runs[i].fitted
           /\ i > 1 => runs[i].builder = None /\ ~runs[i].fitted

C10_Witness ==
  /\ family \in FitOnce
  /\ pc = "sweep_done"
  /\ Len(runs) >= 9
  /\ Len(logfile) = Len(runs)

====
